---- MODULE Spec2Model ----
(***************************************************************************)
(* Model of the visible-watermark engine of watermark_system_demo:         *)
(* ImageProcessor.add_visible_watermark and the helpers it calls           *)
(* (services/image_processor.py).  One call of add_visible_watermark is    *)
(* followed from its arguments to the saved output.  Geometry is exact     *)
(* integer arithmetic.  Pixels are followed at one probe position of the   *)
(* canvas, chosen freely at the start of the call: every Pillow operation  *)
(* used here (fill through a mask, paste, alpha_composite, convert) is     *)
(* per-pixel, so the probe stands for any pixel of the image.              *)
(* A second specification, SpecWeb, follows two concurrent requests to the *)
(* embed and extract endpoints of app.py through upload, naming of the     *)
(* output file, processing and logging (services/file_manager.py,          *)
(* services/logger_service.py).  A third specification, SpecLog, follows   *)
(* concurrent calls of LoggerService.log_operation on the day's CSV file.  *)
(***************************************************************************)
EXTENDS Integers, Sequences, FiniteSets, TLC

VARIABLES pc, inp, text_width, text_height, wm_width, wm_height,
          text_color, watermark_rows, watermark_cols, row, col,
          stamps, skipped, layer_px, covered, watermarked, output_file, err,
          now, req, uploads, outputs, log, propagate,
          csv, calls

vars == <<pc, inp, text_width, text_height, wm_width, wm_height,
          text_color, watermark_rows, watermark_cols, row, col,
          stamps, skipped, layer_px, covered, watermarked, output_file, err,
          now, req, uploads, outputs, log, propagate,
          csv, calls>>

(* The state of one engine call, and the state of the web application.     *)
engine == <<pc, inp, text_width, text_height, wm_width, wm_height,
            text_color, watermark_rows, watermark_cols, row, col,
            stamps, skipped, layer_px, covered, watermarked, output_file, err>>

web == <<now, req, uploads, outputs, log, propagate>>

(* The day's CSV file and the calls of log_operation in progress.          *)
logger == <<csv, calls>>

-----------------------------------------------------------------------------
(* Bounds of the explored inputs.                                          *)

MaxCanvas == 5
MaxOrigin == 2
MaxText == 2
MaxTile == 2
MaxSpace == 1
MaxCount == 3
MaxBearing == 1
MaxHexLen == 8
MaxExcess == 60
MaxClock == 1
MaxRotText == 6
MaxCalls == 2

(* Program constants.                                                      *)
padding == 20
RotationMargin == 50

(* Python's None for an optional value; a present value v is <<v>>.        *)
None == <<>>

Some(v) == <<v>>

NoError == "none"

-----------------------------------------------------------------------------
(* Integer helpers.                                                        *)

Abs(n) == IF n < 0 THEN -n ELSE n

Max(a, b) == IF a >= b THEN a ELSE b

(* Python's int(a / b): true division, then truncation toward zero.  For   *)
(* operands below 2^53 the float quotient never rounds across an integer,  *)
(* so the result is the exact truncated quotient.  b # 0.                  *)
TruncDiv(a, b) ==
    LET q == Abs(a) \div Abs(b)
    IN  IF (a < 0) = (b < 0) THEN q ELSE -q

(* Python's a // b for b > 0 (floor division).                             *)
FloorDiv(a, b) == a \div b

(* int(math.sqrt(n)) for n >= 0, n = w^2 + h^2 <= (w + h)^2.               *)
ISqrt(n, hi) == CHOOSE k \in 0..hi : k * k <= n /\ (k + 1) * (k + 1) > n

-----------------------------------------------------------------------------
(* Colour parsing: ImageProcessor._hex_to_rgb.  A string is a sequence of  *)
(* one-character strings.                                                  *)

ValueError == "ValueError"
ZeroDivisionError == "ZeroDivisionError"

HexDigits == <<"0", "1", "2", "3", "4", "5", "6", "7",
               "8", "9", "a", "b", "c", "d", "e", "f">>

UpperDigits == <<"0", "1", "2", "3", "4", "5", "6", "7",
                 "8", "9", "A", "B", "C", "D", "E", "F">>

IsHexDigit(c) == \E i \in 1..16 : HexDigits[i] = c \/ UpperDigits[i] = c

HexVal(c) == (CHOOSE i \in 1..16 : HexDigits[i] = c \/ UpperDigits[i] = c) - 1

(* str.lstrip('#'): every leading '#' is removed, not only the first.      *)
RECURSIVE LStripHash(_)
LStripHash(s) ==
    IF s # <<>> /\ Head(s) = "#" THEN LStripHash(Tail(s)) ELSE s

(* Mutation of DoubleEach: the three digits are repeated as a group.       *)
DoubleEach_Twice(s) == s \o s

(* ''.join([c*2 for c in hex_color])                                       *)
RECURSIVE DoubleEach(_)
DoubleEach(s) ==
    IF s = <<>> THEN <<>> ELSE <<Head(s), Head(s)>> \o DoubleEach(Tail(s))

(* hex_color[i:i+2] with i counted from 0; a slice past the end is short   *)
(* or empty, never an error.                                               *)
Slice2(s, i) ==
    IF i + 1 > Len(s) THEN <<>>
    ELSE IF i + 2 > Len(s) THEN <<s[i + 1]>>
    ELSE <<s[i + 1], s[i + 2]>>

(* str.strip() as int() applies it, for the blank character.               *)
RECURSIVE StripBlank(_)
StripBlank(s) ==
    IF s = <<>> THEN s
    ELSE IF Head(s) = " " THEN StripBlank(Tail(s))
    ELSE IF s[Len(s)] = " " THEN StripBlank(SubSeq(s, 1, Len(s) - 1))
    ELSE s

(* int(sl, 16) for a slice of at most two characters: blanks around the    *)
(* number are ignored, one sign is accepted, at least one digit is         *)
(* required ("0x", "_f", "f_" and "" are errors).  None stands for the     *)
(* ValueError int() raises.                                                *)
ParseInt16(sl) ==
    LET u == StripBlank(sl)
    IN  IF Len(u) = 1 /\ IsHexDigit(u[1]) THEN Some(HexVal(u[1]))
        ELSE IF Len(u) = 2 /\ IsHexDigit(u[1]) /\ IsHexDigit(u[2])
             THEN Some(16 * HexVal(u[1]) + HexVal(u[2]))
        ELSE IF Len(u) = 2 /\ u[1] = "+" /\ IsHexDigit(u[2]) THEN Some(HexVal(u[2]))
        ELSE IF Len(u) = 2 /\ u[1] = "-" /\ IsHexDigit(u[2]) THEN Some(-HexVal(u[2]))
        ELSE None

(* The result is the RGB tuple, or None when int() raises ValueError.      *)
hex_to_rgb(hex_color) ==
    LET stripped == LStripHash(hex_color)
        h == IF Len(stripped) = 3 THEN DoubleEach(stripped) ELSE stripped
        r == ParseInt16(Slice2(h, 0))
        g == ParseInt16(Slice2(h, 2))
        b == ParseInt16(Slice2(h, 4))
    IN  IF r = None \/ g = None \/ b = None
        THEN None
        ELSE <<r[1], g[1], b[1]>>

(* Mutation of AlphaOf: the percentage is used as the alpha byte.          *)
AlphaOf_Percent(opacity) == opacity

(* alpha = int(255 * opacity / 100)                                        *)
AlphaOf(opacity) == TruncDiv(255 * opacity, 100)

-----------------------------------------------------------------------------
(* Pixel arithmetic of the imaging library, per pixel.  A pixel is a       *)
(* tuple <<r, g, b, a>> of bytes.                                          *)

(* Mutation of Transparent: new images start opaque black.                 *)
Transparent_Opaque == <<0, 0, 0, 255>>

Transparent == <<0, 0, 0, 0>>

(* CLIP8: the fill tuple is clipped to bytes when it becomes the ink.      *)
(* Mutation of Clip8: the value wraps around instead of being clipped.     *)
Clip8_Wrap(v) == v % 256

Clip8(v) == IF v < 0 THEN 0 ELSE IF v > 255 THEN 255 ELSE v

Ink(color) == <<Clip8(color[1]), Clip8(color[2]), Clip8(color[3]), Clip8(color[4])>>

(* DIV255(a): tmp = a + 128, ((tmp >> 8) + tmp) >> 8                       *)
Div255(a) == (((a + 128) \div 256) + (a + 128)) \div 256

(* BLEND(mask, in1, in2) = in1 * (255 - mask) / 255 + in2 * mask / 255     *)
Blend(mask, in1, in2) == Div255(in1 * (255 - mask) + in2 * mask)

(* draw.text on an RGBA image: the ink is filled through the glyph mask    *)
(* value m of the pixel.  On a pixel whose alpha is still 0 the colour     *)
(* bands take the ink whole; the alpha band is always blended by m.        *)
FillMask(out, ink, m) ==
    LET cm == IF m # 0 /\ out[4] = 0 THEN 255 ELSE m
    IN  <<Blend(cm, out[1], ink[1]), Blend(cm, out[2], ink[2]),
          Blend(cm, out[3], ink[3]), Blend(m, out[4], ink[4])>>

(* layer.paste(im, box, im): every band is blended with the alpha of the   *)
(* pasted pixel as mask.                                                   *)
PasteMask(out, in) ==
    <<Blend(in[4], out[1], in[1]), Blend(in[4], out[2], in[2]),
      Blend(in[4], out[3], in[3]), Blend(in[4], out[4], in[4])>>

ShiftForDiv255(a) == ((a \div 256) + a) \div 256

(* Mutation of AlphaComposite: the layer pixel replaces the image pixel.   *)
AlphaComposite_Replace(dst, src) == src

(* Image.alpha_composite(dst, src), one pixel.                             *)
AlphaComposite(dst, src) ==
    IF src[4] = 0 THEN dst
    ELSE LET blend == dst[4] * (255 - src[4])
             outa255 == src[4] * 255 + blend
             coef1 == (src[4] * 255 * 255 * 128) \div outa255
             coef2 == 255 * 128 - coef1
             ch(i) == ShiftForDiv255(src[i] * coef1 + dst[i] * coef2 + 128 * 128) \div 128
         IN  <<ch(1), ch(2), ch(3), ShiftForDiv255(outa255 + 128)>>

(* convert('RGB') of an RGBA pixel: the alpha band is dropped.             *)
ConvertRGB(p) == <<p[1], p[2], p[3]>>

-----------------------------------------------------------------------------
(* Placement geometry.                                                     *)

SingleAnchors == {"topleft", "topright", "center", "bottomleft", "bottomright"}

(* Mutation of calculate_position: the centre is rounded toward zero.      *)
calculate_position_TruncCenter(position, img_width, img_height, tw, th) ==
    CASE position = "topleft" -> <<padding, padding>>
      [] position = "topright" -> <<img_width - tw - padding, padding>>
      [] position = "center" ->
            <<TruncDiv(img_width - tw, 2), TruncDiv(img_height - th, 2)>>
      [] position = "bottomleft" -> <<padding, img_height - th - padding>>
      [] OTHER -> <<img_width - tw - padding, img_height - th - padding>>

(* ImageProcessor._calculate_position                                      *)
calculate_position(position, img_width, img_height, tw, th) ==
    CASE position = "topleft" -> <<padding, padding>>
      [] position = "topright" -> <<img_width - tw - padding, padding>>
      [] position = "center" ->
            <<FloorDiv(img_width - tw, 2), FloorDiv(img_height - th, 2)>>
      [] position = "bottomleft" -> <<padding, img_height - th - padding>>
      [] OTHER -> <<img_width - tw - padding, img_height - th - padding>>

(* Mutation of ResolveCount: the quotient is rounded up.                   *)
ResolveCount_RoundUp(count, available, tile, space) ==
    IF count = 0 THEN Max(1, TruncDiv(available, tile + space) + 1) ELSE count

(* Mutation of ResolveCount: a derived count is not raised to 1.           *)
ResolveCount_NoFloorOne(count, available, tile, space) ==
    IF count = 0 THEN TruncDiv(available, tile + space) ELSE count

(* Resolution of one grid count (rows or cols): 0 means derive it from the *)
(* available space, any other value is used as passed.                     *)
ResolveCount(count, available, tile, space) ==
    IF count = 0 THEN Max(1, TruncDiv(available, tile + space)) ELSE count

(* Top-left of the tile in row r, column c.                                *)
TileX(c) == inp.watermark_x + c * (wm_width + inp.watermark_x_space)

TileY(r) == inp.watermark_y + r * (wm_height + inp.watermark_y_space)

(* Mutation of InBounds: a tile touching the edge is rejected.             *)
InBounds_Strict(x, y) ==
    x + wm_width < inp.img_width /\ y + wm_height < inp.img_height

(* Mutation of InBounds: the right edge is not tested.                     *)
InBounds_NoRightEdge(x, y) == y + wm_height <= inp.img_height

(* The bounds test of the grid loop.                                       *)
InBounds(x, y) ==
    x + wm_width <= inp.img_width /\ y + wm_height <= inp.img_height

(* Mutation of draw_watermark_text: the temp image is pasted with its      *)
(* corner, not its centre, on the stamp centre.                            *)
draw_watermark_text_CornerPaste(x, y, angle, tw, th, r, c) ==
    IF angle = 0
    THEN [kind |-> "direct", x |-> x, y |-> y, row |-> r, col |-> c,
          angle |-> angle, margin |-> 0, temp_size |-> 0,
          temp_x |-> 0, temp_y |-> 0, paste_x |-> x, paste_y |-> y]
    ELSE LET margin == ISqrt(tw * tw + th * th, tw + th) + RotationMargin
             temp_size == Max(tw, th) + margin * 2
         IN  [kind |-> "rotated", x |-> x, y |-> y, row |-> r, col |-> c,
              angle |-> angle, margin |-> margin, temp_size |-> temp_size,
              temp_x |-> FloorDiv(temp_size - tw, 2),
              temp_y |-> FloorDiv(temp_size - th, 2),
              paste_x |-> x + FloorDiv(tw, 2),
              paste_y |-> y + FloorDiv(th, 2)]

(* Mutation of draw_watermark_text: the temp image has no margin.          *)
draw_watermark_text_NoMargin(x, y, angle, tw, th, r, c) ==
    IF angle = 0
    THEN [kind |-> "direct", x |-> x, y |-> y, row |-> r, col |-> c,
          angle |-> angle, margin |-> 0, temp_size |-> 0,
          temp_x |-> 0, temp_y |-> 0, paste_x |-> x, paste_y |-> y]
    ELSE LET margin == 0
             temp_size == Max(tw, th) + margin * 2
             center_x == x + FloorDiv(tw, 2)
             center_y == y + FloorDiv(th, 2)
         IN  [kind |-> "rotated", x |-> x, y |-> y, row |-> r, col |-> c,
              angle |-> angle, margin |-> margin, temp_size |-> temp_size,
              temp_x |-> FloorDiv(temp_size - tw, 2),
              temp_y |-> FloorDiv(temp_size - th, 2),
              paste_x |-> center_x - FloorDiv(temp_size, 2),
              paste_y |-> center_y - FloorDiv(temp_size, 2)]

(* Mutation of draw_watermark_text: angle 0 also goes through the temp     *)
(* image.                                                                  *)
draw_watermark_text_AlwaysTemp(x, y, angle, tw, th, r, c) ==
    LET margin == ISqrt(tw * tw + th * th, tw + th) + RotationMargin
        temp_size == Max(tw, th) + margin * 2
        center_x == x + FloorDiv(tw, 2)
        center_y == y + FloorDiv(th, 2)
    IN  [kind |-> "rotated", x |-> x, y |-> y, row |-> r, col |-> c,
         angle |-> angle, margin |-> margin, temp_size |-> temp_size,
         temp_x |-> FloorDiv(temp_size - tw, 2),
         temp_y |-> FloorDiv(temp_size - th, 2),
         paste_x |-> center_x - FloorDiv(temp_size, 2),
         paste_y |-> center_y - FloorDiv(temp_size, 2)]

(* ImageProcessor._draw_watermark_text: what one call does, as a record.   *)
(* Angle 0 draws the text at (x, y) on the layer.  Any other angle draws   *)
(* it in a square temp image, rotates that about (temp_size // 2,          *)
(* temp_size // 2) and pastes it at (paste_x, paste_y).                    *)
draw_watermark_text(x, y, angle, tw, th, r, c) ==
    IF angle = 0
    THEN [kind |-> "direct", x |-> x, y |-> y, row |-> r, col |-> c,
          angle |-> angle, margin |-> 0, temp_size |-> 0,
          temp_x |-> 0, temp_y |-> 0, paste_x |-> x, paste_y |-> y]
    ELSE LET margin == ISqrt(tw * tw + th * th, tw + th) + RotationMargin
             temp_size == Max(tw, th) + margin * 2
             center_x == x + FloorDiv(tw, 2)
             center_y == y + FloorDiv(th, 2)
         IN  [kind |-> "rotated", x |-> x, y |-> y, row |-> r, col |-> c,
              angle |-> angle, margin |-> margin, temp_size |-> temp_size,
              temp_x |-> FloorDiv(temp_size - tw, 2),
              temp_y |-> FloorDiv(temp_size - th, 2),
              paste_x |-> center_x - FloorDiv(temp_size, 2),
              paste_y |-> center_y - FloorDiv(temp_size, 2)]

(* How far from the pivot, on either axis, rotated ink can land: the ink   *)
(* box of the text in the temp image, turned about the pivot.              *)
RotReach(s) ==
    LET pivot == FloorDiv(s.temp_size, 2)
        dx == Max(Abs(s.temp_x + inp.bbox_left - pivot),
                  Abs(s.temp_x + inp.bbox_left + text_width - pivot))
        dy == Max(Abs(s.temp_y + inp.bbox_top - pivot),
                  Abs(s.temp_y + inp.bbox_top + text_height - pivot))
    IN  ISqrt(dx * dx + dy * dy, dx + dy) + 2

(* Is the pixel (ix, iy) of the temp image inside the ink box of the text  *)
(* drawn at (temp_x, temp_y)?                                              *)
InkInTemp(s, ix, iy) ==
    /\ s.temp_x + inp.bbox_left <= ix
    /\ ix < s.temp_x + inp.bbox_left + text_width
    /\ s.temp_y + inp.bbox_top <= iy
    /\ iy < s.temp_y + inp.bbox_top + text_height

(* temp_img.rotate(-angle, center=(c, c)) with nearest-neighbour sampling: *)
(* the output pixel (qx, qy) takes the temp pixel found by turning its     *)
(* centre (qx + 1/2, qy + 1/2) back about (c, c).  For quarter turns that  *)
(* is an exact pixel; for other angles the ink stays within RotReach of    *)
(* the pivot.                                                              *)
RotatedInk(s, qx, qy) ==
    LET c == FloorDiv(s.temp_size, 2)
        ex == qx - c
        ey == qy - c
        turn == s.angle % 360
    IN  CASE turn = 90 -> InkInTemp(s, c + ey, c - ex - 1)
          [] turn = 180 -> InkInTemp(s, c - ex - 1, c - ey - 1)
          [] turn = 270 -> InkInTemp(s, c - ey - 1, c + ex)
          [] turn = 0 -> InkInTemp(s, qx, qy)
          [] OTHER -> Abs(ex) <= RotReach(s) /\ Abs(ey) <= RotReach(s)

(* The pixels of the layer a stamp can write.  Direct: the ink box of the  *)
(* text, which textbbox places at (x + left, y + top).  Rotated: the       *)
(* rotated ink inside the square pasted at (paste_x, paste_y).             *)
Touches(s, px, py) ==
    IF s.kind = "direct"
    THEN /\ s.x + inp.bbox_left <= px /\ px < s.x + inp.bbox_left + text_width
         /\ s.y + inp.bbox_top <= py /\ py < s.y + inp.bbox_top + text_height
    ELSE /\ s.paste_x <= px /\ px < s.paste_x + s.temp_size
         /\ s.paste_y <= py /\ py < s.paste_y + s.temp_size
         /\ RotatedInk(s, px - s.paste_x, py - s.paste_y)

(* Glyph coverage of one pixel: none, antialiased edge, full.              *)
Coverages == {0, 128, 255}

(* The layer pixel after a stamp has been drawn with coverage m there.     *)
StampPixel(s, old, m) ==
    IF s.kind = "direct"
    THEN FillMask(old, Ink(text_color), m)
    ELSE PasteMask(old, FillMask(Transparent, Ink(text_color), m))

(* One call of _draw_watermark_text on the shared layer.                   *)
Draw(s) ==
    /\ stamps' = Append(stamps, s)
    /\ IF Touches(s, inp.probe_x, inp.probe_y)
       THEN \E m \in Coverages :
                /\ layer_px' = StampPixel(s, layer_px, m)
                /\ covered' = IF m > 0 THEN m ELSE covered
       ELSE UNCHANGED <<layer_px, covered>>

-----------------------------------------------------------------------------
(* The arguments of one call.  An axis configuration holds what the call   *)
(* is given along one axis: canvas extent, grid origin, left/top bearing   *)
(* and extent of the measured text box, explicit tile extent (None when    *)
(* not passed), spacing and count (0 = derive).                            *)

Axis(canvas, origin, bear, text, tile, space, count) ==
    [canvas |-> canvas, origin |-> origin, bear |-> bear, text |-> text,
     tile |-> tile, space |-> space, count |-> count]

Input(ax, ay, position, angle, opacity, color, px, py, src) ==
    [img_width |-> ax.canvas, img_height |-> ay.canvas,
     bbox_left |-> ax.bear, bbox_top |-> ay.bear,
     bbox_w |-> ax.text, bbox_h |-> ay.text,
     position |-> position, opacity |-> opacity, color |-> color,
     watermark_x |-> ax.origin, watermark_y |-> ay.origin,
     watermark_rows |-> ay.count, watermark_cols |-> ax.count,
     watermark_x_space |-> ax.space, watermark_y_space |-> ay.space,
     watermark_angle |-> angle,
     watermark_width |-> ax.tile, watermark_height |-> ay.tile,
     probe_x |-> px, probe_y |-> py, src |-> src]

Black == <<"#", "0", "0", "0", "0", "0", "0">>

Colors == {Black,
           <<"#", "f", "f", "8", "0", "0", "0">>,
           <<"0", "F", "a">>,
           <<"#", "1", "2">>,
           <<"#", "0", "0", "g", "0", "0", "0">>}

Opacities == {0, 50, 100}

Angles == {0, 45}

SrcColours == {<<10, 20, 30, 255>>, <<200, 100, 0, 255>>, <<255, 255, 255, 128>>}

DefaultSrc == <<10, 20, 30, 255>>

(* Explicit tile extents: not passed, or any integer up to MaxTile.        *)
Tiles == {None} \cup {Some(v) : v \in -1..MaxTile}

SideAxis == {Axis(3, 0, 0, 1, None, 1, 0), Axis(3, 0, 0, 2, None, 0, 2)}

(* Grid calls, one axis explored in full against a few configurations of   *)
(* the other axis.                                                         *)
GridInputs(i) ==
    \E cv \in 1..MaxCanvas, o \in -1..MaxOrigin, t \in 1..MaxText, tile \in Tiles,
       sp \in (-MaxSpace - 1)..MaxSpace, n \in -1..MaxCount,
       side \in SideAxis, angle \in {0, 90} :
        \/ i = Input(Axis(cv, o, 0, t, tile, sp, n), side,
                     "grid", angle, 50, Black, 0, 0, DefaultSrc)
        \/ i = Input(side, Axis(cv, o, 0, t, tile, sp, n),
                     "grid", angle, 50, Black, 0, 0, DefaultSrc)

(* Single-anchor calls on canvases smaller and larger than the padding.    *)
SingleDims == {1, MaxCanvas} \cup {2 * padding + k : k \in 1..(MaxText + 1)}

SingleInputs(i) ==
    \E w \in SingleDims, h \in SingleDims, tw \in 1..MaxText, th \in 1..MaxText,
       position \in SingleAnchors, angle \in {0, 90} :
        i = Input(Axis(w, 20, 0, tw, None, 50, 0), Axis(h, 20, 0, th, None, 50, 0),
                  position, angle, 50, Black, 0, 0, DefaultSrc)

(* Calls followed at every pixel of a small canvas, with every opacity,    *)
(* colour and angle.                                                       *)
PixelInputs(i) ==
    \E bl \in 0..MaxBearing, bt \in 0..MaxBearing, sp \in {-1, 0},
       angle \in Angles, opacity \in Opacities, color \in Colors,
       px \in 0..2, py \in 0..1, src \in SrcColours :
        i = Input(Axis(3, 0, bl, 2, None, sp, 0), Axis(2, 0, bt, 1, None, 0, 0),
                  "grid", angle, opacity, color, px, py, src)

(* Single-anchor calls followed at the pixels around the stamp.            *)
PixelSingleInputs(i) ==
    \E position \in SingleAnchors, angle \in {0, 90}, opacity \in Opacities,
       px \in 19..24, py \in 19..22, src \in SrcColours :
        i = Input(Axis(44, 20, 0, 2, None, 50, 0), Axis(42, 20, 0, 1, None, 50, 0),
                  position, angle, opacity, Black, px, py, src)

(* The worked examples of the specification: canvas 500x500, origin        *)
(* (20,20), tile 100x40 (measured or explicit), spacing (50,50), with      *)
(* derived counts and with 10 explicit columns; and canvas 800x600 with    *)
(* one stamp of a 36pt word at the bottom right.                           *)
ScenarioGrid(i) ==
    \E tx \in {[text |-> 100, tile |-> None], [text |-> 80, tile |-> Some(100)]},
       ty \in {[text |-> 40, tile |-> None], [text |-> 30, tile |-> Some(40)]},
       cols \in {0, 10} :
        i = Input(Axis(500, 20, 0, tx.text, tx.tile, 50, cols),
                  Axis(500, 20, 0, ty.text, ty.tile, 50, 0),
                  "grid", 0, 50, Black, 0, 0, DefaultSrc)

ScenarioProbes == {<<0, 0>>, <<399, 299>>, <<200, 150>>, <<400, 300>>,
                   <<600, 560>>, <<790, 590>>, <<399, 599>>, <<799, 0>>}

ScenarioSingle(i) ==
    \E bl \in {0, 1}, bt \in {0, 9}, tw \in {260, 300}, th \in {27, 36},
       p \in ScenarioProbes, src \in SrcColours :
        i = Input(Axis(800, 20, bl, tw, None, 50, 0), Axis(600, 20, bt, th, None, 50, 0),
                  "bottomright", 0, 50, Black, p[1], p[2], src)

(* A string of n copies of the character c.                                *)
RECURSIVE Repeat(_, _)
Repeat(c, n) == IF n <= 0 THEN <<>> ELSE <<c>> \o Repeat(c, n - 1)

(* The two hexadecimal digits of a byte, in the given digit alphabet.      *)
HexOf2(v, digits) == <<digits[(v \div 16) + 1], digits[(v % 16) + 1]>>

LeadingHash == {<<>>, <<"#">>}

DigitCases == {HexDigits, UpperDigits}

BaseDigits == {"0", "a", "F"}

OddChars == {"7", "g", "+", "-", " ", "#", "_"}

(* The call made with a given colour string and opacity on a 3x2 image,    *)
(* everything else as in the pixel calls.                                  *)
ColorCall(color, opacity, position) ==
    Input(Axis(3, 0, 0, 2, None, 0, 0), Axis(2, 0, 0, 1, None, 0, 0),
          position, 0, opacity, color, 0, 0, DefaultSrc)

(* Colour strings of every length up to MaxHexLen behind 0, 1 or 2 '#':    *)
(* one digit repeated, with one position holding another character.        *)
ColorInputs(i) ==
    \E h \in 0..2, n \in 0..MaxHexLen, d \in BaseDigits,
       c \in BaseDigits \cup OddChars, p \in 1..MaxHexLen :
        /\ p <= Max(n, 1)
        /\ i = ColorCall(Repeat("#", h) \o Repeat(d, p - 1)
                            \o (IF n = 0 THEN <<>> ELSE <<c>>) \o Repeat(d, n - p),
                         50, "grid")

(* Six-digit and three-digit colour strings of every byte and every        *)
(* nibble, one channel at a time, in either case, with and without '#'.    *)
HexColorInputs(i) ==
    \E v \in 0..255, w \in {0, 18, 255}, j \in 1..3,
       hash \in LeadingHash, digits \in DigitCases :
        \/ i = ColorCall(hash \o HexOf2(IF j = 1 THEN v ELSE w, digits)
                              \o HexOf2(IF j = 2 THEN v ELSE w, digits)
                              \o HexOf2(IF j = 3 THEN v ELSE w, digits),
                         50, "grid")
        \/ /\ v < 16 /\ w % 17 = 0
           /\ i = ColorCall(hash \o <<digits[(IF j = 1 THEN v ELSE w \div 17) + 1],
                                      digits[(IF j = 2 THEN v ELSE w \div 17) + 1],
                                      digits[(IF j = 3 THEN v ELSE w \div 17) + 1]>>,
                            50, "grid")

(* Every opacity the form can carry, from below 0 to above 100.            *)
OpacityInputs(i) ==
    \E opacity \in (-MaxExcess)..(100 + MaxExcess), position \in {"grid", "center"} :
        i = ColorCall(Black, opacity, position)

(* Single-anchor calls that also carry grid parameters.                    *)
SingleWithGridInputs(i) ==
    \E position \in SingleAnchors, o \in -1..MaxOrigin, tile \in Tiles,
       sp \in (-MaxSpace - 1)..MaxSpace, n \in -1..MaxCount, angle \in {0, 90} :
        i = Input(Axis(44, o, 0, 2, tile, sp, n), Axis(42, o, 0, 1, tile, sp, n),
                  position, angle, 50, Black, 0, 0, DefaultSrc)

(* Rotated single stamps of texts of every small size, empty text          *)
(* included, and of a few large sizes.                                     *)
RotTexts == (0..MaxRotText) \cup {36, 100, 300}

RotAngles == {-45, 30, 45, 90, 180, 270, 359}

RotationInputs(i) ==
    \E tw \in RotTexts, th \in RotTexts, bl \in 0..MaxBearing, bt \in 0..MaxBearing,
       angle \in RotAngles :
        i = Input(Axis(44, 20, bl, tw, None, 50, 0), Axis(42, 20, bt, th, None, 50, 0),
                  "center", angle, 50, Black, 0, 0, DefaultSrc)

(* The calls explored.                                                     *)
Inputs(i) ==
    \/ GridInputs(i)
    \/ SingleInputs(i)
    \/ PixelInputs(i)
    \/ PixelSingleInputs(i)
    \/ ScenarioGrid(i)
    \/ ScenarioSingle(i)
    \/ ColorInputs(i)
    \/ HexColorInputs(i)
    \/ OpacityInputs(i)
    \/ SingleWithGridInputs(i)
    \/ RotationInputs(i)

-----------------------------------------------------------------------------
(* One call of add_visible_watermark.                                      *)

Init ==
    /\ Inputs(inp)
    /\ pc = "start"
    /\ text_width = 0 /\ text_height = 0
    /\ wm_width = 0 /\ wm_height = 0
    /\ text_color = None
    /\ watermark_rows = inp.watermark_rows
    /\ watermark_cols = inp.watermark_cols
    /\ row = 0 /\ col = 0
    /\ stamps = <<>>
    /\ skipped = {}
    /\ layer_px = Transparent
    /\ covered = 0
    /\ watermarked = {}
    /\ output_file = {}
    /\ err = NoError
    /\ now = 0 /\ req = <<>> /\ uploads = {} /\ outputs = {} /\ log = <<>>
    /\ propagate = FALSE
    /\ csv = None /\ calls = <<>>

(* Truthiness of an optional integer argument: None and 0 are both false.  *)
Truthy(v) == v # None /\ v # Some(0)

(* Lines 42-60: open the image, create the transparent layer, measure the  *)
(* text, choose the tile size.                                             *)
Measure ==
    /\ pc = "start"
    /\ layer_px' = Transparent
    /\ text_width' = inp.bbox_w
    /\ text_height' = inp.bbox_h
    /\ wm_width' = IF Truthy(inp.watermark_width) THEN inp.watermark_width[1]
                   ELSE inp.bbox_w
    /\ wm_height' = IF Truthy(inp.watermark_height) THEN inp.watermark_height[1]
                    ELSE inp.bbox_h
    /\ pc' = "color"
    /\ UNCHANGED <<inp, text_color, watermark_rows, watermark_cols, row, col,
                   stamps, skipped, covered, watermarked, output_file, err>>
    /\ UNCHANGED <<web, logger>>

(* Lines 62-65: parse the colour, derive the alpha, build the fill colour. *)
ResolveColor ==
    /\ pc = "color"
    /\ LET rgb == hex_to_rgb(inp.color)
       IN  IF rgb = None
           THEN /\ pc' = "error" /\ err' = ValueError
                /\ UNCHANGED text_color
           ELSE /\ text_color' = <<rgb[1], rgb[2], rgb[3], AlphaOf(inp.opacity)>>
                /\ pc' = IF inp.position \in SingleAnchors THEN "single" ELSE "grid"
                /\ UNCHANGED err
    /\ UNCHANGED <<inp, text_width, text_height, wm_width, wm_height,
                   watermark_rows, watermark_cols, row, col, stamps, skipped,
                   layer_px, covered, watermarked, output_file>>
    /\ UNCHANGED <<web, logger>>

(* Lines 68-74: single-anchor mode, one stamp at the computed position.    *)
PlaceSingle ==
    /\ pc = "single"
    /\ LET xy == calculate_position(inp.position, inp.img_width, inp.img_height,
                                    text_width, text_height)
       IN  Draw(draw_watermark_text(xy[1], xy[2], inp.watermark_angle,
                                    text_width, text_height, 0, 0))
    /\ pc' = "composite"
    /\ UNCHANGED <<inp, text_width, text_height, wm_width, wm_height, text_color,
                   watermark_rows, watermark_cols, row, col, skipped,
                   watermarked, output_file, err>>
    /\ UNCHANGED <<web, logger>>

(* Mutation of ResolveGrid: the output file is created before the counts   *)
(* are resolved.                                                           *)
ResolveGrid_WriteFirst ==
    /\ pc = "grid"
    /\ output_file' = {[size |-> <<inp.img_width, inp.img_height>>,
                        px |-> ConvertRGB(inp.src)]}
    /\ LET available_width == inp.img_width - inp.watermark_x
           available_height == inp.img_height - inp.watermark_y
           div0 == \/ watermark_cols = 0 /\ wm_width + inp.watermark_x_space = 0
                   \/ watermark_rows = 0 /\ wm_height + inp.watermark_y_space = 0
       IN  IF div0
           THEN /\ pc' = "error" /\ err' = ZeroDivisionError
                /\ UNCHANGED <<watermark_rows, watermark_cols>>
           ELSE /\ watermark_cols' = ResolveCount(watermark_cols, available_width,
                                                  wm_width, inp.watermark_x_space)
                /\ watermark_rows' = ResolveCount(watermark_rows, available_height,
                                                  wm_height, inp.watermark_y_space)
                /\ pc' = "loop"
                /\ UNCHANGED err
    /\ UNCHANGED <<inp, text_width, text_height, wm_width, wm_height, text_color,
                   row, col, stamps, skipped, layer_px, covered, watermarked>>
    /\ UNCHANGED <<web, logger>>

(* Lines 76-85: grid mode, available space and resolution of the counts.   *)
ResolveGrid ==
    /\ pc = "grid"
    /\ LET available_width == inp.img_width - inp.watermark_x
           available_height == inp.img_height - inp.watermark_y
           div0 == \/ watermark_cols = 0 /\ wm_width + inp.watermark_x_space = 0
                   \/ watermark_rows = 0 /\ wm_height + inp.watermark_y_space = 0
       IN  IF div0
           THEN /\ pc' = "error" /\ err' = ZeroDivisionError
                /\ UNCHANGED <<watermark_rows, watermark_cols>>
           ELSE /\ watermark_cols' = ResolveCount(watermark_cols, available_width,
                                                  wm_width, inp.watermark_x_space)
                /\ watermark_rows' = ResolveCount(watermark_rows, available_height,
                                                  wm_height, inp.watermark_y_space)
                /\ pc' = "loop"
                /\ UNCHANGED err
    /\ UNCHANGED <<inp, text_width, text_height, wm_width, wm_height, text_color,
                   row, col, stamps, skipped, layer_px, covered,
                   watermarked, output_file>>
    /\ UNCHANGED <<web, logger>>

(* The loop position after the tile (row, col).                            *)
NextRow == IF col + 1 < watermark_cols THEN row ELSE row + 1

NextCol == IF col + 1 < watermark_cols THEN col + 1 ELSE 0

(* Lines 88-95: one iteration of the tile loops: the candidate is drawn if *)
(* it passes the bounds test, skipped otherwise.                           *)
GridTile ==
    /\ pc = "loop"
    /\ row < watermark_rows /\ col < watermark_cols
    /\ LET x == TileX(col)
           y == TileY(row)
       IN  IF InBounds(x, y)
           THEN /\ Draw(draw_watermark_text(x, y, inp.watermark_angle,
                                            text_width, text_height, row, col))
                /\ UNCHANGED skipped
           ELSE /\ skipped' = skipped \cup {<<row, col>>}
                /\ UNCHANGED <<stamps, layer_px, covered>>
    /\ row' = NextRow /\ col' = NextCol
    /\ UNCHANGED <<pc, inp, text_width, text_height, wm_width, wm_height,
                   text_color, watermark_rows, watermark_cols,
                   watermarked, output_file, err>>
    /\ UNCHANGED <<web, logger>>

(* Lines 88-89: the loops are over (or empty: range() of a count <= 0).    *)
GridDone ==
    /\ pc = "loop"
    /\ ~(row < watermark_rows /\ col < watermark_cols)
    /\ pc' = "composite"
    /\ UNCHANGED <<inp, text_width, text_height, wm_width, wm_height, text_color,
                   watermark_rows, watermark_cols, row, col, stamps, skipped,
                   layer_px, covered, watermarked, output_file, err>>
    /\ UNCHANGED <<web, logger>>

(* Lines 97-101: alpha-composite the layer over the image, convert to RGB. *)
(* watermarked and output_file hold at most one image: its size and the    *)
(* probe pixel.                                                            *)
Composite ==
    /\ pc = "composite"
    /\ watermarked' = {[size |-> <<inp.img_width, inp.img_height>>,
                       px |-> ConvertRGB(AlphaComposite(inp.src, layer_px))]}
    /\ pc' = "save"
    /\ UNCHANGED <<inp, text_width, text_height, wm_width, wm_height, text_color,
                   watermark_rows, watermark_cols, row, col, stamps, skipped,
                   layer_px, covered, output_file, err>>
    /\ UNCHANGED <<web, logger>>

(* Line 102: write the result to output_path.                              *)
Save ==
    /\ pc = "save"
    /\ output_file' = watermarked
    /\ pc' = "done"
    /\ UNCHANGED <<inp, text_width, text_height, wm_width, wm_height, text_color,
                   watermark_rows, watermark_cols, row, col, stamps, skipped,
                   layer_px, covered, watermarked, err>>
    /\ UNCHANGED <<web, logger>>

Next ==
    \/ Measure
    \/ ResolveColor
    \/ PlaceSingle
    \/ ResolveGrid
    \/ GridTile
    \/ GridDone
    \/ Composite
    \/ Save

Spec == Init /\ [][Next]_vars

-----------------------------------------------------------------------------
(* The web application (app.py): two requests to the embed endpoints,      *)
(* served by concurrent threads.  A text (message, description, log        *)
(* value) is a sequence of tokens; a form value is one token.              *)

Requests == {1, 2}

allowed_extensions == {"png", "jpg", "jpeg", "bmp", "gif"}

SensitiveKeys == {"password", "password_img", "password_wm"}

(* An uploaded file name: the characters before the last '.', and the      *)
(* extension after it ("" when the name has no '.').                       *)
Filenames ==
    {[name |-> <<"a">>, ext |-> "png"],
     [name |-> <<"a", " ", "b">>, ext |-> "png"],
     [name |-> <<"a", "_", "b">>, ext |-> "png"],
     [name |-> <<"a">>, ext |-> "PNG"],
     [name |-> <<"a">>, ext |-> "txt"],
     [name |-> <<>>, ext |-> ""]}

(* request.files.get('file'): None when the part is missing.               *)
Files == {None} \cup {Some(f) : f \in Filenames}

VisibleForms ==
    {fm \in {[text |-> "CONF", opacity |-> o, color |-> c] :
                o \in {"50", "abc"}, c \in {"#000000", "#00g000"}} :
        fm.opacity = "50" \/ fm.color = "#000000"}

BlindForms ==
    {fm \in {[watermark |-> "CONF", password |-> "pw",
               password_img |-> p, password_wm |-> q] :
                p \in {"7", "0", "hunter2"}, q \in {"7", "s3cret"}} :
        fm.password_img = "7" \/ fm.password_wm = "7"}

ExtractForms == {[wm_length |-> "50", password_img |-> "7", password_wm |-> "7"]}

ReqShapes ==
    {[kind |-> "embed_visible", file |-> f, form |-> fm] :
        f \in Files, fm \in VisibleForms}
    \cup {[kind |-> "embed_blind", file |-> f, form |-> fm] :
        f \in Files, fm \in BlindForms}
    \cup {[kind |-> "extract_blind", file |-> f, form |-> fm] :
        f \in Files, fm \in ExtractForms}

(* The endpoints that call allowed_file before save_upload (lines 153,     *)
(* 257), and those that write an output file.                              *)
ChecksExtension(kind) == kind \in {"embed_visible", "embed_blind"}

HasOutput(kind) == kind \in {"embed_visible", "embed_blind"}

NewReq(s) ==
    [kind |-> s.kind, file |-> s.file, form |-> s.form, pc |-> "recv",
     input_path |-> None, output_path |-> None, exc |-> <<>>, status |-> 0,
     body |-> <<>>]

(* int(value): the literals int() reads, and their values.                 *)
IntLiterals == {"0", "7", "50"}

IntValue(v) == CASE v = "0" -> 0 [] v = "7" -> 7 [] OTHER -> 50

(* The characters of a colour form value.                                  *)
ColorChars(v) ==
    IF v = "#000000" THEN Black ELSE <<"#", "0", "0", "g", "0", "0", "0">>

(* str.lower() of an extension.                                            *)
Lower(ext) == IF ext = "PNG" THEN "png" ELSE ext

(* FileManager.allowed_file                                                *)
allowed_file(f) == f.ext # "" /\ Lower(f.ext) \in allowed_extensions

(* werkzeug secure_filename on a name without leading, trailing or double  *)
(* blanks: blanks and path separators become '_'.                          *)
RECURSIVE secure_filename(_)
secure_filename(n) ==
    IF n = <<>> THEN <<>>
    ELSE <<IF Head(n) \in {" ", "/"} THEN "_" ELSE Head(n)>>
            \o secure_filename(Tail(n))

(* datetime.now().strftime('%Y%m%d_%H%M%S'): the clock, to the second.     *)
Timestamp == now

(* FileManager.save_upload: "{name}_{timestamp}{ext}" in the upload folder *)
UploadPath(f) == [name |-> secure_filename(f.name), ts |-> Timestamp, ext |-> f.ext]

(* f"visible_{timestamp}.png" / f"blind_{timestamp}.png" in the output     *)
(* folder.                                                                 *)
OutputPath(kind) ==
    [prefix |-> IF kind = "embed_visible" THEN "visible_" ELSE "blind_",
     ts |-> Timestamp]

RoutePath(kind) ==
    CASE kind = "embed_visible" -> "/api/image/visible/embed"
      [] kind = "embed_blind" -> "/api/image/blind/embed"
      [] OTHER -> "/api/image/blind/extract"

(* A folder is a set of files, one per path; writing a path replaces the   *)
(* file that was there.                                                    *)
Write(folder, path, data) ==
    {f \in folder : f.path # path} \cup {[path |-> path, data |-> data]}

Read(folder, path) == (CHOOSE f \in folder : f.path = path).data

Exception(type, msg) == [type |-> type, msg |-> msg]

(* str(e) of the ValueError int(v) raises: the message quotes v.           *)
InvalidLiteral(v) ==
    Exception("ValueError", <<"invalid literal for int() with base 10: ", v>>)

(* The form fields the handler passes through int(), in order (lines       *)
(* 162-178, 265-266 and 335-337).                                          *)
IntFields(kind) ==
    CASE kind = "embed_visible" -> <<"opacity">>
      [] kind = "embed_blind" -> <<"password_img", "password_wm">>
      [] OTHER -> <<"wm_length", "password_img", "password_wm">>

(* The first field int() cannot read, 0 when it reads them all.            *)
FirstBadInt(kind, form) ==
    LET bad == {k \in 1..Len(IntFields(kind)) :
                    form[IntFields(kind)[k]] \notin IntLiterals}
    IN  IF bad = {} THEN 0 ELSE CHOOSE k \in bad : \A j \in bad : k <= j

(* What the processing call raises, <<>> when it succeeds:                 *)
(* add_visible_watermark fails on a colour _hex_to_rgb cannot read;        *)
(* WatermarkService.embed_blind_watermark and extract_blind_watermark      *)
(* reject passwords below 1.  The content of the upload is not modelled.   *)
ProcessingError(kind, form) ==
    IF kind = "embed_visible"
    THEN IF hex_to_rgb(ColorChars(form.color)) = None
         THEN <<Exception("ValueError", <<"invalid literal for int() with base 16">>)>>
         ELSE <<>>
    ELSE IF IntValue(form.password_img) < 1
         THEN <<Exception("ValueError", <<"image password must be an integer above 0">>)>>
         ELSE IF IntValue(form.password_wm) < 1
         THEN <<Exception("ValueError", <<"watermark password must be an integer above 0">>)>>
         ELSE <<>>

(* traceback.format_exc(): the active exception and the chain of           *)
(* exceptions it was raised while handling, each with its message.         *)
RECURSIVE Traceback(_)
Traceback(chain) ==
    IF chain = <<>> THEN <<>>
    ELSE <<Head(chain).type, ": ">> \o Head(chain).msg \o Traceback(Tail(chain))

Keys(items) == {p[1] : p \in items}

(* LoggerService.log_operation: the row appended to the CSV file.          *)
Row(r, operation_type, description, status_code, error_message, extra_info) ==
    [by |-> r, timestamp |-> now,
     operation_type |-> operation_type, description |-> description,
     ip_address |-> "client", method |-> "POST", path |-> RoutePath(req[r].kind),
     status_code |-> status_code, error_message |-> error_message,
     extra_info |-> extra_info]

(* LoggerService.log_api_request: the form fields other than the           *)
(* sensitive keys, updated with the keyword arguments.                     *)
log_api_request(r, operation_type, status_code, error_message, kwargs) ==
    LET form == req[r].form
        fields == {<<k, <<form[k]>>>> : k \in (DOMAIN form) \ SensitiveKeys}
    IN  Row(r, operation_type, <<operation_type, " - ", RoutePath(req[r].kind)>>,
            status_code, error_message,
            {p \in fields : p[1] \notin Keys(kwargs)} \cup kwargs)

MultipleValues ==
    Exception("TypeError",
              <<"log_api_request() got multiple values for keyword argument 'operation_type'">>)

(* LoggerService.log_error: it passes operation_type='error' and its own   *)
(* keyword arguments on to log_api_request, so a caller's operation_type   *)
(* keyword makes the call a TypeError.  The result is the row written, or  *)
(* None for the TypeError.                                                 *)
log_error(r, error_type, error_message, kwargs) ==
    IF "operation_type" \in Keys(kwargs)
    THEN None
    ELSE Some(log_api_request(r, "error", 500,
                              <<error_type, ": ">> \o error_message, kwargs))

SetReq(r, rec) == req' = [req EXCEPT ![r] = rec]

WebInit ==
    /\ pc = "idle" /\ inp = ColorCall(Black, 50, "grid")
    /\ text_width = 0 /\ text_height = 0
    /\ wm_width = 0 /\ wm_height = 0
    /\ text_color = None
    /\ watermark_rows = 0 /\ watermark_cols = 0
    /\ row = 0 /\ col = 0
    /\ stamps = <<>>
    /\ skipped = {}
    /\ layer_px = Transparent
    /\ covered = 0
    /\ watermarked = {}
    /\ output_file = {}
    /\ err = NoError
    /\ now = 0
    /\ \E s1 \in ReqShapes, s2 \in ReqShapes : req = <<NewReq(s1), NewReq(s2)>>
    /\ uploads = {} /\ outputs = {} /\ log = <<>>
    /\ propagate \in BOOLEAN
    /\ csv = None /\ calls = <<>>

(* The clock passes from one second to the next.                           *)
Tick ==
    /\ now < MaxClock
    /\ now' = now + 1
    /\ UNCHANGED <<req, uploads, outputs, log, propagate>>
    /\ UNCHANGED <<engine, logger>>

(* app.py 146-154 / 253-258 / 328-329: the checks on the uploaded file.  A *)
(* failed check returns (jsonify({'error': ...}), 400).                    *)
Validate(r) ==
    /\ req[r].pc = "recv"
    /\ LET q == req[r]
           reason == IF q.file = None THEN <<"no file uploaded">>
                     ELSE IF q.kind = "embed_visible" /\ q.file[1].name = <<>>
                                                     /\ q.file[1].ext = ""
                     THEN <<"empty file name">>
                     ELSE IF ChecksExtension(q.kind) /\ ~allowed_file(q.file[1])
                     THEN <<"unsupported file format">>
                     ELSE <<>>
       IN  IF reason # <<>>
           THEN SetReq(r, [q EXCEPT !.status = 400, !.body = <<"error">> \o reason,
                                    !.pc = "return"])
           ELSE SetReq(r, [q EXCEPT !.pc = "save"])
    /\ UNCHANGED <<now, uploads, outputs, log, propagate>>
    /\ UNCHANGED <<engine, logger>>

(* app.py 157 / 261, FileManager.save_upload.                              *)
SaveUpload(r) ==
    /\ req[r].pc = "save"
    /\ LET path == UploadPath(req[r].file[1])
       IN  /\ uploads' = Write(uploads, path, r)
           /\ SetReq(r, [req[r] EXCEPT !.input_path = Some(path), !.pc = "parse"])
    /\ UNCHANGED <<now, outputs, log, propagate>>
    /\ UNCHANGED <<engine, logger>>

(* app.py 160-178 / 264-266: the form values are read and converted.       *)
ParseForm(r) ==
    /\ req[r].pc = "parse"
    /\ LET q == req[r]
           k == FirstBadInt(q.kind, q.form)
       IN  IF k = 0
           THEN SetReq(r, [q EXCEPT !.pc = IF HasOutput(q.kind) THEN "name"
                                           ELSE "process"])
           ELSE SetReq(r, [q EXCEPT
                    !.exc = <<InvalidLiteral(q.form[IntFields(q.kind)[k]])>>,
                    !.pc = "except"])
    /\ UNCHANGED <<now, uploads, outputs, log, propagate>>
    /\ UNCHANGED <<engine, logger>>

(* app.py 181-182 / 269-270: the output file is named after the clock.     *)
NameOutput(r) ==
    /\ req[r].pc = "name"
    /\ SetReq(r, [req[r] EXCEPT !.output_path = Some(OutputPath(req[r].kind)),
                                !.pc = "process"])
    /\ UNCHANGED <<now, uploads, outputs, log, propagate>>
    /\ UNCHANGED <<engine, logger>>

(* app.py 184-202 / 272-278: the processing call reads the upload at       *)
(* input_path and writes the result to output_path, or raises.             *)
Process(r) ==
    /\ req[r].pc = "process"
    /\ LET q == req[r]
           e == ProcessingError(q.kind, q.form)
       IN  IF e = <<>>
           THEN /\ outputs' = IF HasOutput(q.kind)
                               THEN Write(outputs, q.output_path[1],
                                          [by |-> r,
                                           from |-> Read(uploads, q.input_path[1])])
                               ELSE outputs
                /\ SetReq(r, [q EXCEPT !.pc = "logop"])
           ELSE /\ SetReq(r, [q EXCEPT !.exc = e, !.pc = "except"])
                /\ UNCHANGED outputs
    /\ UNCHANGED <<now, uploads, log, propagate>>
    /\ UNCHANGED <<engine, logger>>

(* app.py 205-219 / 281-293: the handler's own log row for a success.      *)
LogOperation(r) ==
    /\ req[r].pc = "logop"
    /\ LET q == req[r]
           row200 ==
             IF q.kind = "embed_visible"
             THEN Row(r, q.kind, <<"embed visible ok: ", q.form.text>>, 200, <<>>,
                      {<<"text", <<q.form.text>>>>, <<"position", <<"grid">>>>,
                       <<"opacity", <<q.form.opacity>>>>, <<"font_size", <<"36">>>>,
                       <<"output_file", <<"visible_", "timestamp", ".png">>>>})
             ELSE IF q.kind = "embed_blind"
             THEN Row(r, q.kind, <<"embed blind ok: ", q.form.watermark, "...">>, 200, <<>>,
                      {<<"watermark_length", <<"len">>>>, <<"wm_length", <<"bits">>>>,
                       <<"output_file", <<"blind_", "timestamp", ".png">>>>})
             ELSE Row(r, q.kind, <<"extract blind ok: ", "extracted", "...">>, 200, <<>>,
                      {<<"wm_length", <<q.form.wm_length>>>>,
                       <<"extracted_length", <<"len">>>>})
       IN  /\ log' = Append(log, row200)
           /\ SetReq(r, [q EXCEPT !.status = 200, !.body = <<"success">>,
                                  !.pc = "return"])
    /\ UNCHANGED <<now, uploads, outputs, propagate>>
    /\ UNCHANGED <<engine, logger>>

(* app.py 52-75: the handler has returned; the decorator logs the request  *)
(* with the status of the response.                                        *)
ReturnResponse(r) ==
    /\ req[r].pc = "return"
    /\ log' = Append(log, log_api_request(r, req[r].kind, req[r].status, <<>>, {}))
    /\ SetReq(r, [req[r] EXCEPT !.pc = "done"])
    /\ UNCHANGED <<now, uploads, outputs, propagate>>
    /\ UNCHANGED <<engine, logger>>

(* app.py 227-237 / 302-312, 77-92 and 621-629: an exception in the        *)
(* handler.  The handler's except block calls log_error; if that returns,  *)
(* the handler returns (jsonify({'error': ...}), 500) to the decorator.    *)
(* If log_error raises, the decorator's except block calls log_error and   *)
(* re-raises; the framework then either propagates the exception           *)
(* (PROPAGATE_EXCEPTIONS, debug) or calls internal_error, which calls      *)
(* log_error with the traceback of the whole chain.                        *)
HandleException(r) ==
    /\ req[r].pc = "except"
    /\ LET q == req[r]
           e1 == q.exc
           inView == log_error(r, e1[1].type, e1[1].msg,
                               {<<"operation_type", <<q.kind>>>>,
                                <<"traceback", Traceback(e1)>>})
           e2 == <<MultipleValues>> \o e1
           inWrapper == log_error(r, e2[1].type, e2[1].msg,
                                  {<<"operation_type", <<q.kind>>>>,
                                   <<"processing_time", <<"ms">>>>,
                                   <<"traceback", Traceback(e2)>>})
           e3 == IF inWrapper = None THEN <<MultipleValues>> \o e2 ELSE e2
           inWrapperRows == IF inWrapper = None THEN <<>> ELSE <<inWrapper[1]>>
           inFlask == log_error(r, "InternalServerError", <<"internal server error">>,
                                {<<"traceback", Traceback(e3)>>})
           inFlaskRows == IF propagate \/ inFlask = None THEN <<>> ELSE <<inFlask[1]>>
       IN  IF inView # None
           THEN /\ log' = Append(log, inView[1])
                /\ SetReq(r, [q EXCEPT !.status = 500,
                                       !.body = <<"error">> \o e1[1].msg,
                                       !.pc = "return"])
           ELSE /\ log' = log \o inWrapperRows \o inFlaskRows
                /\ SetReq(r, [q EXCEPT
                        !.exc = e3, !.status = 500,
                        !.body = IF propagate THEN <<"unhandled exception">>
                                 ELSE <<"error", "internal server error">>,
                        !.pc = "done"])
    /\ UNCHANGED <<now, uploads, outputs, propagate>>
    /\ UNCHANGED <<engine, logger>>

WebNext ==
    \/ Tick
    \/ \E r \in Requests : Validate(r)
    \/ \E r \in Requests : SaveUpload(r)
    \/ \E r \in Requests : ParseForm(r)
    \/ \E r \in Requests : NameOutput(r)
    \/ \E r \in Requests : Process(r)
    \/ \E r \in Requests : LogOperation(r)
    \/ \E r \in Requests : ReturnResponse(r)
    \/ \E r \in Requests : HandleException(r)

SpecWeb == WebInit /\ [][WebNext]_vars

-----------------------------------------------------------------------------
(* Concurrent calls of LoggerService.log_operation                         *)
(* (services/logger_service.py).  The application serves requests in       *)
(* threads that share one LoggerService; each caller below is one thread.  *)
(* csv is the day's file: None while it does not exist, otherwise its      *)
(* lines.  Opening the file for writing and writing the header is one      *)
(* step, as is opening it for appending and writing the row.               *)

Callers == {1, 2, 3}

Header == [kind |-> "header", by |-> 0, n |-> 0]

(* The row written by the k-th call of caller c.                           *)
LogRow(c, k) == [kind |-> "row", by |-> c, n |-> k]

Lines(f) == IF f = None THEN <<>> ELSE f[1]

(* The day's file when the first call arrives: absent, empty, or begun.    *)
LogFiles == {None, Some(<<>>), Some(<<Header>>)}

SetCall(c, v) == calls' = [calls EXCEPT ![c] = v]

LogInit ==
    /\ pc = "idle" /\ inp = ColorCall(Black, 50, "grid")
    /\ text_width = 0 /\ text_height = 0
    /\ wm_width = 0 /\ wm_height = 0
    /\ text_color = None
    /\ watermark_rows = 0 /\ watermark_cols = 0
    /\ row = 0 /\ col = 0
    /\ stamps = <<>>
    /\ skipped = {}
    /\ layer_px = Transparent
    /\ covered = 0
    /\ watermarked = {}
    /\ output_file = {}
    /\ err = NoError
    /\ now = 0 /\ req = <<>> /\ uploads = {} /\ outputs = {} /\ log = <<>>
    /\ propagate = FALSE
    /\ csv \in LogFiles
    /\ calls = [c \in Callers |-> [pc |-> "idle", n |-> 0]]

(* log_operation 59-60: the call enters its try block and computes the     *)
(* path of the day's file.                                                 *)
EnterLog(c) ==
    /\ calls[c].pc = "idle"
    /\ calls[c].n < MaxCalls
    /\ SetCall(c, [calls[c] EXCEPT !.pc = "ensure"])
    /\ UNCHANGED <<csv, engine, web>>

(* _ensure_csv_header 26: the test on the file's existence and size.       *)
CheckHeader(c) ==
    /\ calls[c].pc = "ensure"
    /\ SetCall(c, [calls[c] EXCEPT
            !.pc = IF csv = None \/ Lines(csv) = <<>> THEN "create" ELSE "append"])
    /\ UNCHANGED <<csv, engine, web>>

(* _ensure_csv_header 27-33: open(filepath, 'w') empties the file, then    *)
(* the header is written.                                                  *)
CreateHeader(c) ==
    /\ calls[c].pc = "create"
    /\ csv' = Some(<<Header>>)
    /\ SetCall(c, [calls[c] EXCEPT !.pc = "append"])
    /\ UNCHANGED <<engine, web>>

(* log_operation 75-86: open(filepath, 'a') and writerow; the call         *)
(* returns.                                                                *)
AppendRow(c) ==
    /\ calls[c].pc = "append"
    /\ csv' = Some(Append(Lines(csv), LogRow(c, calls[c].n + 1)))
    /\ SetCall(c, [pc |-> "idle", n |-> calls[c].n + 1])
    /\ UNCHANGED <<engine, web>>

LogNext ==
    \/ \E c \in Callers : EnterLog(c)
    \/ \E c \in Callers : CheckHeader(c)
    \/ \E c \in Callers : CreateHeader(c)
    \/ \E c \in Callers : AppendRow(c)

SpecLog == LogInit /\ [][LogNext]_vars

-----------------------------------------------------------------------------
(* Properties.                                                             *)

GridMode == inp.position \notin SingleAnchors

(* The tile loops have run to their end without an error.                  *)
Placed == pc \in {"composite", "save", "done"}

(* The counts have been resolved.                                          *)
Resolved == pc \in {"loop", "composite", "save", "done"}

StampIds == 1..Len(stamps)

(* C1: every stamp drawn on the layer has its whole text box               *)
(* [x, x+textW] x [y, y+textH] inside the canvas, in single-anchor mode    *)
(* and in grid mode.                                                       *)
C1_StampsInsideCanvas ==
    \A i \in StampIds :
        /\ 0 <= stamps[i].x
        /\ 0 <= stamps[i].y
        /\ stamps[i].x + text_width <= inp.img_width
        /\ stamps[i].y + text_height <= inp.img_height

(* The candidates (row, col) of the grid and those that pass the bounds    *)
(* test, written from the layout alone.                                    *)
Candidates == (0..(watermark_rows - 1)) \X (0..(watermark_cols - 1))

CandX(rc) == inp.watermark_x + rc[2] * (wm_width + inp.watermark_x_space)

CandY(rc) == inp.watermark_y + rc[1] * (wm_height + inp.watermark_y_space)

Passing ==
    {rc \in Candidates : /\ CandX(rc) + wm_width <= inp.img_width
                         /\ CandY(rc) + wm_height <= inp.img_height}

(* C2: in grid mode the stamps drawn are exactly the candidates            *)
(* (originX + c*(tileW+spacingX), originY + r*(tileH+spacingY)), 0 <= r <  *)
(* rows, 0 <= c < cols, that satisfy x + tileW <= canvasW and              *)
(* y + tileH <= canvasH: each drawn once, the others skipped without an    *)
(* error.                                                                  *)
C2_GridStampsExact ==
    (GridMode /\ Placed) =>
        /\ {<<stamps[i].row, stamps[i].col>> : i \in StampIds} = Passing
        /\ Len(stamps) = Cardinality(Passing)
        /\ \A i \in StampIds :
              /\ stamps[i].x = CandX(<<stamps[i].row, stamps[i].col>>)
              /\ stamps[i].y = CandY(<<stamps[i].row, stamps[i].col>>)
        /\ skipped = Candidates \ Passing
        /\ err = NoError

C2_Witness ==
    /\ GridMode /\ pc = "done"
    /\ Len(stamps) >= 2
    /\ skipped # {}

(* A layout the data model calls valid, with both counts left to derive.   *)
ValidAutoLayout ==
    /\ GridMode
    /\ inp.watermark_rows = 0 /\ inp.watermark_cols = 0
    /\ inp.watermark_x >= 0 /\ inp.watermark_y >= 0
    /\ inp.watermark_x_space >= 0 /\ inp.watermark_y_space >= 0
    /\ wm_width >= 1 /\ wm_height >= 1

(* The worked example: canvas 500x500, origin (20,20), tile 100x40,        *)
(* spacing (50,50), rows derived.                                          *)
Example500 ==
    /\ GridMode
    /\ inp.img_width = 500 /\ inp.img_height = 500
    /\ inp.watermark_x = 20 /\ inp.watermark_y = 20
    /\ wm_width = 100 /\ wm_height = 40
    /\ inp.watermark_x_space = 50 /\ inp.watermark_y_space = 50
    /\ inp.watermark_rows = 0

TilesInBounds ==
    \A i \in StampIds :
        /\ 0 <= stamps[i].x /\ stamps[i].x + wm_width <= inp.img_width
        /\ 0 <= stamps[i].y /\ stamps[i].y + wm_height <= inp.img_height

(* C3 as stated: with both counts derived and a valid layout, no candidate *)
(* is dropped and exactly rows*cols stamps are drawn.                      *)
C3_AutoNeverDrops ==
    (ValidAutoLayout /\ Placed) =>
        /\ skipped = {}
        /\ Len(stamps) = watermark_rows * watermark_cols

(* C3 amended: with both counts derived and a valid layout in which one    *)
(* tile fits at the origin (originX + tileW <= canvasW and originY + tileH *)
(* <= canvasH), no candidate is dropped and exactly rows*cols stamps are   *)
(* drawn, all inside the canvas; 15 stamps in the worked example.          *)
C3_AutoFitsWhenOneTileFits ==
    (ValidAutoLayout /\ Placed) =>
        /\ (/\ inp.watermark_x + wm_width <= inp.img_width
            /\ inp.watermark_y + wm_height <= inp.img_height)
           => /\ skipped = {}
              /\ Len(stamps) = watermark_rows * watermark_cols
              /\ TilesInBounds
        /\ Example500 => Len(stamps) = 15 /\ TilesInBounds

C3_Witness ==
    /\ ValidAutoLayout /\ Example500 /\ pc = "done"
    /\ Len(stamps) = 15

(* C4: in grid mode the resolved row count and column count are each >= 1, *)
(* derived or explicit.                                                    *)
C4_CountsAtLeastOne ==
    (GridMode /\ Resolved) => watermark_rows >= 1 /\ watermark_cols >= 1

(* C5: a count passed as 0 resolves to max(1, floor(available / (tile +    *)
(* spacing))) whenever the divisor is positive, also when the origin lies  *)
(* beyond the canvas edge; a non-zero count is used unchanged; the worked  *)
(* example resolves to 3 columns and 5 rows.                               *)
C5_ResolvedCounts ==
    (GridMode /\ Resolved) =>
        /\ (inp.watermark_cols = 0 /\ wm_width + inp.watermark_x_space > 0)
           => watermark_cols =
                Max(1, (inp.img_width - inp.watermark_x)
                          \div (wm_width + inp.watermark_x_space))
        /\ (inp.watermark_rows = 0 /\ wm_height + inp.watermark_y_space > 0)
           => watermark_rows =
                Max(1, (inp.img_height - inp.watermark_y)
                          \div (wm_height + inp.watermark_y_space))
        /\ inp.watermark_cols # 0 => watermark_cols = inp.watermark_cols
        /\ inp.watermark_rows # 0 => watermark_rows = inp.watermark_rows
        /\ (Example500 /\ inp.watermark_cols = 0)
           => watermark_cols = 3 /\ watermark_rows = 5

C5_Witness ==
    /\ GridMode /\ pc = "loop"
    /\ inp.watermark_cols = 0
    /\ inp.img_width - inp.watermark_x < 0
    /\ wm_width + inp.watermark_x_space > 0
    /\ watermark_cols = 1

(* The worked example with 10 explicit columns.                            *)
Example500Cols10 == Example500 /\ inp.watermark_cols = 10

StampsInRow(r) == {i \in StampIds : stamps[i].row = r}

(* C6 as stated: with 10 explicit columns in the worked example, fewer     *)
(* than 10 tiles are emitted in all and each has x + tileW <= 500.         *)
C6_FewerThanTenEmitted ==
    (Example500Cols10 /\ Placed) =>
        /\ Len(stamps) < 10
        /\ \A i \in StampIds : stamps[i].x + wm_width <= 500

(* C6 amended: with 10 explicit columns in the worked example, the tiles   *)
(* whose right edge exceeds 500 are omitted, each of the 5 derived rows    *)
(* emits 3 tiles (fewer than 10), 15 of the 50 candidates are emitted in   *)
(* all, and each emitted tile has x + tileW <= 500.                        *)
C6_ThreePerRowEmitted ==
    (Example500Cols10 /\ Placed) =>
        /\ watermark_rows = 5 /\ watermark_cols = 10
        /\ \A r \in 0..4 : Cardinality(StampsInRow(r)) = 3
        /\ Len(stamps) = 15
        /\ Cardinality(skipped) = 35
        /\ \A rc \in skipped : CandX(rc) + wm_width > 500
        /\ \A i \in StampIds : stamps[i].x + wm_width <= 500

C6_Witness ==
    /\ Example500Cols10 /\ pc = "done"
    /\ Len(stamps) = 15 /\ skipped # {}

(* Angles against which the placement of a rotated stamp is compared.      *)
OtherAngles == {-30, 45, 90, 180, 270}

OutputPixels == {w.px : w \in watermarked} \cup {w.px : w \in output_file}

SrcRGB == <<inp.src[1], inp.src[2], inp.src[3]>>

(* C8: with opacity 0 every output pixel has the colour of the source      *)
(* pixel.                                                                  *)
C8_ZeroOpacityUnchanged ==
    inp.opacity = 0 => \A p \in OutputPixels : p = SrcRGB

C8_Witness ==
    /\ inp.opacity = 0 /\ pc = "done"
    /\ covered = 255
    /\ OutputPixels = {SrcRGB}

(* C9: with opacity 100 the alpha of the fill is 255 and an output pixel   *)
(* fully covered by the stamp (the glyph coverage of the stamp drawn last  *)
(* over it is full) is exactly the fill colour, whatever the source; over  *)
(* an opaque source each channel is src*(1-a) + layer*a, a the layer       *)
(* alpha, to the nearest byte.                                             *)
C9_FullOpacityFill ==
    inp.opacity = 100 =>
        /\ text_color # None => text_color[4] = 255
        /\ covered = 255 =>
              /\ layer_px[4] = 255
              /\ \A p \in OutputPixels :
                    p = <<text_color[1], text_color[2], text_color[3]>>
        /\ inp.src[4] = 255 =>
              \A p \in OutputPixels : \A c \in 1..3 :
                 Abs(2 * 255 * p[c]
                     - 2 * (inp.src[c] * (255 - layer_px[4])
                            + layer_px[c] * layer_px[4])) <= 255

C9_Witness ==
    /\ inp.opacity = 100 /\ pc = "done"
    /\ covered = 255
    /\ SrcRGB # <<text_color[1], text_color[2], text_color[3]>>
    /\ OutputPixels = {<<text_color[1], text_color[2], text_color[3]>>}

(* The text box [x, x+textW] x [y, y+textH] of some drawn stamp holds the  *)
(* probe pixel.                                                            *)
InSomeTextBox ==
    \E i \in StampIds :
        /\ stamps[i].x <= inp.probe_x /\ inp.probe_x <= stamps[i].x + text_width
        /\ stamps[i].y <= inp.probe_y /\ inp.probe_y <= stamps[i].y + text_height

(* The area some drawn stamp is rendered into holds the probe pixel.       *)
InSomeRenderedArea ==
    \E i \in StampIds : Touches(stamps[i], inp.probe_x, inp.probe_y)

(* The end-to-end example: canvas 800x600, one stamp at the bottom right,  *)
(* opacity 50, angle 0.                                                    *)
Example800 ==
    /\ inp.img_width = 800 /\ inp.img_height = 600
    /\ inp.position = "bottomright"
    /\ inp.opacity = 50 /\ inp.watermark_angle = 0

ProbeInTopLeftQuadrant == inp.probe_x < 400 /\ inp.probe_y < 300

SameSize ==
    \A w \in watermarked \cup output_file :
        w.size = <<inp.img_width, inp.img_height>>

(* The ink of every stamp lies in the bottom-right quarter of the canvas.  *)
StampsBottomRight ==
    \A i \in StampIds :
        /\ stamps[i].x + inp.bbox_left >= 400
        /\ stamps[i].y + inp.bbox_top >= 300
        /\ stamps[i].x + inp.bbox_left + text_width <= 800
        /\ stamps[i].y + inp.bbox_top + text_height <= 600

(* C10 as stated: the output has the size of the source and every pixel    *)
(* outside the boxes [x, x+textW] x [y, y+textH] of the drawn stamps keeps *)
(* the source colour; in the end-to-end example the stamp is at the bottom *)
(* right and the top-left quadrant is unchanged.                           *)
C10_OutsideTextBoxesUnchanged ==
    /\ SameSize
    /\ ~InSomeTextBox => \A p \in OutputPixels : p = SrcRGB
    /\ Example800 =>
          /\ StampsBottomRight
          /\ ProbeInTopLeftQuadrant => \A p \in OutputPixels : p = SrcRGB

(* C10 amended: the output has the size of the source and every pixel      *)
(* outside the area the drawn stamps are rendered into keeps the source    *)
(* colour, that area being the ink box [x+left, x+left+textW) x            *)
(* [y+top, y+top+textH) for angle 0 and the rotated ink inside the pasted  *)
(* square for another angle; in the end-to-end example the stamp is at the *)
(* bottom right and the top-left quadrant is unchanged.                    *)
C10_OutsideRenderedAreaUnchanged ==
    /\ SameSize
    /\ ~InSomeRenderedArea => \A p \in OutputPixels : p = SrcRGB
    /\ Example800 =>
          /\ StampsBottomRight
          /\ ProbeInTopLeftQuadrant => \A p \in OutputPixels : p = SrcRGB

C10_Witness ==
    /\ Example800 /\ pc = "done"
    /\ Len(stamps) = 1
    /\ ProbeInTopLeftQuadrant
    /\ output_file = watermarked
    /\ OutputPixels = {SrcRGB}

(* The alpha component of the fill colour built at line 65.                *)
FillAlpha == text_color[4]

(* C11: for every opacity in 0..100 the alpha of the fill colour is the    *)
(* integer nearest to 255 * opacity / 100; for opacity 50 it is 128, the   *)
(* rounding of 127.5, not 127.                                             *)
C11_AlphaRounded ==
    (text_color # None /\ inp.opacity \in 0..100) =>
        /\ 2 * Abs(100 * FillAlpha - 255 * inp.opacity) <= 100
        /\ inp.opacity = 50 => FillAlpha = 128

Clamp(v, lo, hi) == IF v < lo THEN lo ELSE IF v > hi THEN hi ELSE v

Body(s) == IF s # <<>> /\ Head(s) = "#" THEN Tail(s) ELSE s

WellFormedHex(s) ==
    /\ Len(Body(s)) \in {3, 6}
    /\ \A k \in 1..Len(Body(s)) : IsHexDigit(Body(s)[k])

(* C13: a colour string that, after an optional single leading '#', is     *)
(* not exactly 3 or 6 hexadecimal digits ends the call in an error: no     *)
(* RGB tuple is produced from it.                                          *)
C13_MalformedRejected ==
    (pc \notin {"start", "color"} /\ ~WellFormedHex(inp.color)) =>
        (pc = "error" /\ err = ValueError /\ text_color = None)

(* Every character of the string is a digit of the given alphabet.         *)
AllIn(s, digits) == \A k \in 1..Len(s) : \E d \in 1..16 : digits[d] = s[k]

(* C14: parsing the six-digit encoding of an RGB triple, with or without   *)
(* '#', in lower or upper case, gives the triple back: the channel written *)
(* as the digits of hi and lo is 16 * hi + lo.  Parsing a three-digit      *)
(* shorthand gives the channels 17 * k of its digits k.                    *)
C14_HexRoundTrip ==
    (pc \in {"single", "grid", "error"} /\ err # ZeroDivisionError) =>
        \A digits \in DigitCases :
            AllIn(Body(inp.color), digits) =>
                /\ Len(Body(inp.color)) = 6 =>
                    /\ text_color # None
                    /\ \A j \in 1..3, hi \in 0..15 :
                        Body(inp.color)[2 * j - 1] = digits[hi + 1] =>
                            \A lo \in 0..15 :
                                Body(inp.color)[2 * j] = digits[lo + 1] =>
                                    text_color[j] = 16 * hi + lo
                /\ Len(Body(inp.color)) = 3 =>
                    /\ text_color # None
                    /\ \A j \in 1..3, k \in 0..15 :
                        Body(inp.color)[j] = digits[k + 1] =>
                            text_color[j] = 17 * k

C14_Witness ==
    \/ /\ inp.color = <<"#", "1", "2", "F", "E", "1", "2">>
       /\ text_color = <<18, 254, 18, AlphaOf(50)>>
       /\ pc = "done"
    \/ /\ inp.color = <<"f", "0", "f">>
       /\ text_color = <<255, 0, 255, AlphaOf(50)>>
       /\ pc = "done"

(* The layouts the specification calls invalid.                            *)
InvalidLayout ==
    \/ inp.watermark_x < 0 \/ inp.watermark_y < 0
    \/ inp.watermark_x_space < 0 \/ inp.watermark_y_space < 0
    \/ (inp.watermark_width # None /\ inp.watermark_width[1] <= 0)
    \/ (inp.watermark_height # None /\ inp.watermark_height[1] <= 0)

(* C15: a grid call with an invalid layout (negative origin or spacing,    *)
(* explicit tile width or height <= 0) draws no stamp and never runs to    *)
(* completion: it ends in an error.                                        *)
C15_InvalidLayoutRejected ==
    (GridMode /\ InvalidLayout) => (stamps = <<>> /\ ~Placed)

(* C16: a call that ends in an error has drawn no stamp on the layer and   *)
(* has neither produced nor written an output image.                       *)
C16_FailFast ==
    pc = "error" =>
        /\ err \in {ValueError, ZeroDivisionError}
        /\ stamps = <<>>
        /\ layer_px = Transparent
        /\ watermarked = {}
        /\ output_file = {}

C16_Witness ==
    /\ pc = "error"
    /\ err = ZeroDivisionError
    /\ text_color # None
    /\ output_file = {}

(* C18: in single-anchor mode the one stamp is at the anchor position      *)
(* computed with padding 20 from the canvas size and the stamp (text)      *)
(* size, and exactly one stamp is drawn whatever the grid parameters are.  *)
C18_SingleAnchorPlacement ==
    ~GridMode =>
        /\ Len(stamps) <= 1
        /\ Placed => Len(stamps) = 1
        /\ stamps # <<>> =>
            LET xy == <<stamps[1].x, stamps[1].y>>
                W == inp.img_width
                H == inp.img_height
                w == text_width
                h == text_height
            IN  /\ inp.position = "topleft" => xy = <<padding, padding>>
                /\ inp.position = "topright" => xy = <<W - w - padding, padding>>
                /\ inp.position = "center" => xy = <<(W - w) \div 2, (H - h) \div 2>>
                /\ inp.position = "bottomleft" => xy = <<padding, H - h - padding>>
                /\ inp.position = "bottomright" =>
                        xy = <<W - w - padding, H - h - padding>>

C18_Witness ==
    /\ inp.position = "center"
    /\ inp.watermark_cols = MaxCount
    /\ inp.watermark_width = Some(0)
    /\ inp.watermark_x_space = 0
    /\ pc = "done"
    /\ Len(stamps) = 1
    /\ stamps[1].x = 21 /\ stamps[1].y = 20

(* The probe pixel of a fresh layer after the text has been rendered       *)
(* directly, unrotated, at (x, y): ink blended in by the glyph coverage    *)
(* inside the ink box of the text, untouched outside it.                   *)
DirectRendering(x, y) ==
    IF /\ x + inp.bbox_left <= inp.probe_x
       /\ inp.probe_x < x + inp.bbox_left + text_width
       /\ y + inp.bbox_top <= inp.probe_y
       /\ inp.probe_y < y + inp.bbox_top + text_height
    THEN {FillMask(Transparent, Ink(text_color), m) : m \in Coverages}
    ELSE {Transparent}

(* C19: with angle 0 every call of _draw_watermark_text is one direct text *)
(* draw at (x, y), with no temp image and no paste, and the layer after    *)
(* one such call is the layer after direct unrotated rendering at (x, y).  *)
C19_ZeroAngleDirect ==
    inp.watermark_angle = 0 =>
        /\ \A k \in StampIds :
            /\ stamps[k].kind = "direct"
            /\ stamps[k].temp_size = 0
            /\ stamps[k].paste_x = stamps[k].x
            /\ stamps[k].paste_y = stamps[k].y
        /\ Len(stamps) = 1 =>
            layer_px \in DirectRendering(stamps[1].x, stamps[1].y)

C19_Witness ==
    /\ inp.watermark_angle = 0
    /\ Len(stamps) = 1
    /\ stamps[1].kind = "direct"
    /\ covered = 128
    /\ layer_px[4] > 0
    /\ pc = "done"

(* The paths given to two different requests.                              *)
Assigned(r1, r2, field) == req[r1][field] # None /\ req[r2][field] # None

(* C17: any two requests have distinct output file paths and distinct      *)
(* upload paths, also within one clock second, and the output file of a    *)
(* completed request is the one that request wrote from its own upload.    *)
C17_DistinctPaths ==
    /\ \A r1 \in Requests, r2 \in Requests :
        r1 # r2 =>
            /\ Assigned(r1, r2, "output_path") =>
                    req[r1].output_path # req[r2].output_path
            /\ Assigned(r1, r2, "input_path") =>
                    req[r1].input_path # req[r2].input_path
    /\ \A r \in Requests :
        (req[r].pc = "done" /\ req[r].status = 200 /\ req[r].output_path # None) =>
            Read(outputs, req[r].output_path[1]) = [by |-> r, from |-> r]

Range(f) == {f[k] : k \in DOMAIN f}

(* Every token of every column of a log row.                               *)
RowTokens(w) ==
    {w.operation_type, w.ip_address, w.method, w.path}
    \cup Range(w.description) \cup Range(w.error_message)
    \cup UNION {{p[1]} \cup Range(p[2]) : p \in w.extra_info}

(* The values of the sensitive form fields of the requests.                *)
Secrets ==
    UNION {{req[r].form[k] : k \in (DOMAIN req[r].form) \cap SensitiveKeys} :
             r \in Requests}

(* C20: no row of the CSV log contains, in any column, the value of a      *)
(* form field password, password_img or password_wm, whether the request   *)
(* succeeds or fails.                                                      *)
C20_NoPasswordInLog ==
    \A k \in 1..Len(log) : RowTokens(log[k]) \cap Secrets = {}

RotatedStamps == {k \in StampIds : stamps[k].kind = "rotated"}

(* The square of the distance from the pivot of the temp image of stamp s  *)
(* to its nearest edge.                                                    *)
EdgeReach2(s) ==
    LET pivot == s.temp_size \div 2
        edge == IF pivot <= s.temp_size - pivot THEN pivot ELSE s.temp_size - pivot
    IN  edge * edge

(* The squares of the distances from the pivot to the corners of the box   *)
(* of size w x h whose top-left corner is at (x0, y0) in the temp image.   *)
CornerReach2(s, x0, y0, w, h) ==
    LET pivot == s.temp_size \div 2
    IN  {(cx - pivot) * (cx - pivot) + (cy - pivot) * (cy - pivot) :
            cx \in {x0, x0 + w}, cy \in {y0, y0 + h}}

CeilSqrt(n, hi) == CHOOSE k \in 0..hi : k * k >= n /\ (k = 0 \/ (k - 1) * (k - 1) < n)

(* C24: for every non-zero angle the margin is ceil(sqrt(textW^2 +         *)
(* textH^2)) + 50, the temp image is a square of side max(textW, textH) +  *)
(* 2 * margin and the text is drawn in it at ((tempSize - textW) div 2,    *)
(* (tempSize - textH) div 2).                                              *)
C24_MarginCeil ==
    \A k \in RotatedStamps :
        LET s == stamps[k]
            tw == text_width
            th == text_height
        IN  /\ s.margin = CeilSqrt(tw * tw + th * th, tw + th) + RotationMargin
            /\ s.temp_size = Max(tw, th) + 2 * s.margin
            /\ s.temp_x = (s.temp_size - tw) \div 2
            /\ s.temp_y = (s.temp_size - th) \div 2

(* C21: no call of the logging service made while serving a request       *)
(* raises to its caller: no exception of a request was raised by           *)
(* log_error, log_api_request or log_operation.                            *)
C21_LoggingNeverRaises ==
    \A r \in Requests :
        \A k \in 1..Len(req[r].exc) : req[r].exc[k] # MultipleValues

(* The exception raised in the try block of the handler: the oldest of the *)
(* chain.                                                                  *)
Original(r) == req[r].exc[Len(req[r].exc)]

(* C22: a request whose handler raised inside its try block ends with the  *)
(* response of the handler's except block, {'error': str(e)} with status   *)
(* 500, and with the error recorded in the log.                            *)
C22_HandlerErrorResponse ==
    \A r \in Requests :
        (req[r].pc = "done" /\ req[r].exc # <<>>) =>
            /\ req[r].status = 500
            /\ req[r].body = <<"error">> \o Original(r).msg
            /\ \E k \in 1..Len(log) :
                /\ log[k].by = r
                /\ log[k].operation_type = "error"
                /\ log[k].error_message = <<Original(r).type, ": ">> \o Original(r).msg

(* C26: save_upload is reached only for a file name allowed_file accepts:  *)
(* a file with another extension, or with none, is never stored in the     *)
(* upload folder and its request is answered with status 400.              *)
C26_UploadsAreAllowed ==
    \A r \in Requests :
        (req[r].file # None /\ ~allowed_file(req[r].file[1])) =>
            /\ req[r].input_path = None
            /\ \A f \in uploads : f.data # r
            /\ req[r].pc = "done" => req[r].status = 400

(* C25: with concurrent calls of log_operation, the row of every call that *)
(* has returned is in the day's file, and once a call has returned the     *)
(* header is the first line and appears exactly once.                      *)
C25_RowsSurvive ==
    /\ \A c \in Callers :
        \A k \in 1..calls[c].n :
            \E i \in 1..Len(Lines(csv)) : Lines(csv)[i] = LogRow(c, k)
    /\ (\E c \in Callers : calls[c].n > 0) =>
        /\ Lines(csv) # <<>>
        /\ Lines(csv)[1] = Header
        /\ Cardinality({i \in 1..Len(Lines(csv)) : Lines(csv)[i] = Header}) = 1

====
